---- MODULE Spec2Model ----
(***************************************************************************)
(* scanmac.py: OCR of MAC addresses from a directory of images, with a     *)
(* scan cache keyed by file signature, a pool of parallel OCR workers, an  *)
(* append-only result ledger and a finalization block that runs on normal  *)
(* completion and on Ctrl+C.                                               *)
(*                                                                         *)
(* Text is modelled as a sequence of one-character strings.                *)
(***************************************************************************)
EXTENDS Integers, Sequences, FiniteSets, TLC

(***************************************************************************)
(* Bounds of the model.                                                    *)
(***************************************************************************)
NumImages == 2      \* images in the scanned directory
MaxTick == 2        \* st_mtime of a file given to file_sig, in half seconds
MaxSize == 1        \* st_size of a file given to file_sig
MaxRuns == 2        \* invocations of main that are followed
MaxMods == 1        \* changes made to the files between and during runs
MaxGroups == 7      \* two-character groups of a text given to extract_macs

(***************************************************************************)
(* Characters.  Charset lists the characters of the model in code-point    *)
(* order, so that Code is monotone in the code point and string            *)
(* comparison by Code is Python's comparison of str.                       *)
(***************************************************************************)
Charset ==
    << " ", "-", ".", "0", "1", "2", "3", "4", "5", "6", "7", "8", "9", ":",
       "A", "B", "C", "D", "E", "F", "I", "O", "S", "Z",
       "a", "b", "c", "d", "e", "f", "l", "o", "s", "z" >>

Code(c) == CHOOSE k \in 1..Len(Charset) : Charset[k] = c

HexDigits ==
    { "0", "1", "2", "3", "4", "5", "6", "7", "8", "9",
      "A", "B", "C", "D", "E", "F", "a", "b", "c", "d", "e", "f" }

UpperHexDigits ==
    { "0", "1", "2", "3", "4", "5", "6", "7", "8", "9",
      "A", "B", "C", "D", "E", "F" }

\* \w of the re module: letters, digits and the underscore
WordChars == HexDigits \cup { "I", "O", "S", "Z", "l", "o", "s", "z" }

\* str.upper on one character
UpperChar(c) ==
    CASE c = "a" -> "A" [] c = "b" -> "B" [] c = "c" -> "C"
      [] c = "d" -> "D" [] c = "e" -> "E" [] c = "f" -> "F"
      [] c = "l" -> "L" [] c = "o" -> "O" [] c = "s" -> "S"
      [] c = "z" -> "Z"
      [] OTHER -> c

upper(s) == [k \in 1..Len(s) |-> UpperChar(s[k])]

\* str.strip: leading and trailing white space removed
RECURSIVE lstrip(_)
lstrip(s) == IF s # << >> /\ Head(s) = " " THEN lstrip(Tail(s)) ELSE s

RECURSIVE rstrip(_)
rstrip(s) ==
    IF s # << >> /\ s[Len(s)] = " " THEN rstrip(SubSeq(s, 1, Len(s) - 1)) ELSE s

strip(s) == lstrip(rstrip(s))

\* s.replace(a, b) for one-character a and a string b
RECURSIVE replace(_, _, _)
replace(s, a, b) ==
    IF s = << >> THEN << >>
    ELSE (IF Head(s) = a THEN b ELSE << Head(s) >>) \o replace(Tail(s), a, b)

Contains(s, c) == \E k \in 1..Len(s) : s[k] = c

\* Python's s < t on str
RECURSIVE StrLess(_, _)
StrLess(s, t) ==
    IF t = << >> THEN FALSE
    ELSE IF s = << >> THEN TRUE
    ELSE IF Head(s) = Head(t) THEN StrLess(Tail(s), Tail(t))
    ELSE Code(Head(s)) < Code(Head(t))

\* a slip: the strings in descending order
RECURSIVE sorted_reverse(_)
sorted_reverse(S) ==
    IF S = {} THEN << >>
    ELSE LET m == CHOOSE x \in S : \A y \in S \ {x} : StrLess(y, x)
         IN  << m >> \o sorted_reverse(S \ {m})

\* sorted(S) for a set S of strings
RECURSIVE sorted(_)
sorted(S) ==
    IF S = {} THEN << >>
    ELSE LET m == CHOOSE x \in S : \A y \in S \ {x} : StrLess(x, y)
         IN  << m >> \o sorted(S \ {m})

Range(q) == { q[k] : k \in 1..Len(q) }

(***************************************************************************)
(* The address matcher.                                                    *)
(***************************************************************************)
\* the translation table of fix_ocr_typos, on the characters of the model
TypoChar(c) ==
    CASE c = "O" -> "0" [] c = "o" -> "0"
      [] c = "I" -> "1" [] c = "l" -> "1"
      [] c = "S" -> "5" [] c = "s" -> "5"
      [] c = "B" -> "8"
      [] OTHER -> c

fix_ocr_typos(s) == [k \in 1..Len(s) |-> TypoChar(s[k])]

\* \b at the gap before position i (1..Len(t)+1) of t
WordBoundary(t, i) ==
    LET before == i > 1 /\ t[i - 1] \in WordChars
        after  == i <= Len(t) /\ t[i] \in WordChars
    IN  before # after

\* RE_COLON matches at position i: (?:HH[:\-]){5}HH between word boundaries
MatchColonAt(t, i) ==
    /\ i + 16 <= Len(t)
    /\ \A g \in 0..5 : t[i + 3 * g] \in HexDigits /\ t[i + 3 * g + 1] \in HexDigits
    /\ \A g \in 0..4 : t[i + 3 * g + 2] \in { ":", "-" }
    /\ WordBoundary(t, i)
    /\ WordBoundary(t, i + 17)

\* RE_DOT matches at position i: HHHH.HHHH.HHHH between word boundaries
MatchDotAt(t, i) ==
    /\ i + 13 <= Len(t)
    /\ \A g \in 0..2 : \A d \in 0..3 : t[i + 5 * g + d] \in HexDigits
    /\ \A g \in 0..1 : t[i + 5 * g + 4] = "."
    /\ WordBoundary(t, i)
    /\ WordBoundary(t, i + 14)

\* RE_RAW12 matches at position i: twelve hex digits between word boundaries
MatchRawAt(t, i) ==
    /\ i + 11 <= Len(t)
    /\ \A d \in 0..11 : t[i + d] \in HexDigits
    /\ WordBoundary(t, i)
    /\ WordBoundary(t, i + 12)

\* pattern.findall(t): the matches from left to right, none overlapping
RECURSIVE FindColon(_, _)
FindColon(t, i) ==
    IF i > Len(t) THEN {}
    ELSE IF MatchColonAt(t, i)
         THEN { SubSeq(t, i, i + 16) } \cup FindColon(t, i + 17)
         ELSE FindColon(t, i + 1)

RECURSIVE FindDot(_, _)
FindDot(t, i) ==
    IF i > Len(t) THEN {}
    ELSE IF MatchDotAt(t, i)
         THEN { SubSeq(t, i, i + 13) } \cup FindDot(t, i + 14)
         ELSE FindDot(t, i + 1)

RECURSIVE FindRaw(_, _)
FindRaw(t, i) ==
    IF i > Len(t) THEN {}
    ELSE IF MatchRawAt(t, i)
         THEN { SubSeq(t, i, i + 11) } \cup FindRaw(t, i + 12)
         ELSE FindRaw(t, i + 1)

\* VALID.fullmatch(s): six upper-case hex octets joined by colons
VALID(s) ==
    /\ Len(s) = 17
    /\ \A g \in 0..5 :
          s[3 * g + 1] \in UpperHexDigits /\ s[3 * g + 2] \in UpperHexDigits
    /\ \A g \in 0..4 : s[3 * g + 3] = ":"

\* ":".join(s[i:i+2] for i in range(0, 12, 2))
JoinPairs(s) ==
    [k \in 1..17 |-> IF k % 3 = 0 THEN ":" ELSE s[2 * (k \div 3) + (k % 3)]]

normalize_mac(m) ==
    LET s1 == replace(upper(strip(m)), "-", << ":" >>)
        s2 == IF Contains(s1, ".") THEN replace(s1, ".", << >>) ELSE s1
    IN  IF ~Contains(s2, ":") /\ Len(s2) = 12 THEN JoinPairs(s2) ELSE s2

extract_macs(text) ==
    LET t == fix_ocr_typos(text)
        found == { normalize_mac(m) :
                     m \in FindColon(t, 1) \cup FindDot(t, 1) \cup FindRaw(t, 1) }
    IN  { m \in found : VALID(m) }


(***************************************************************************)
(* The result ledger: a text file, here the sequence of its lines; an      *)
(* absent file is the empty sequence (save_new never creates an empty one).*)
(***************************************************************************)
load_existing(out) ==
    { upper(strip(out[k])) : k \in { j \in 1..Len(out) : VALID(upper(strip(out[j]))) } }

\* a slip: the addresses the ledger holds are not left out
NewLines_all(macs, out) == sorted(macs)

\* the lines save_new appends
NewLines(macs, out) ==
    LET existed == load_existing(out)
    IN  SelectSeq(sorted(macs), LAMBDA m : m \notin existed)

\* a slip: the file is written anew from all the addresses, in order
save_new_rewrite(macs, out) ==
    IF macs = {} THEN [file |-> out, n |-> 0]
    ELSE [file |-> sorted(load_existing(out) \cup macs),
          n |-> Cardinality(macs \ load_existing(out))]

\* save_new(macs, out_path): the file afterwards and the value returned
save_new(macs, out) ==
    IF macs = {} THEN [file |-> out, n |-> 0]
    ELSE [file |-> out \o NewLines(macs, out), n |-> Len(NewLines(macs, out))]

(***************************************************************************)
(* Image files.  A file is one of a few versions: what stat reports of it  *)
(* (st_mtime in half seconds, st_size), whether Image.open succeeds, and   *)
(* the text the OCR engine reads from it under each configuration.         *)
(***************************************************************************)
Junk == << "z", "z" >>

TextA == << "A", "A", "-", "B", "B", "-", "C", "C", "-",
            "D", "D", "-", "E", "E", "-", "F", "F" >>

TextB == << "0", "0", "1", "1", ".", "2", "2", "a", "a", ".",
            "b", "b", "c", "c" >>

TextC == << "0", "a", "-", "1", "b", "-", "2", "c", "-",
            "3", "d", "-", "4", "e", "-", "5", "f", " " >> \o TextB

Versions ==
    << [mtime |-> 2, size |-> 1, opens |-> TRUE,  psm6 |-> TextA, psm7 |-> Junk],
       [mtime |-> 3, size |-> 2, opens |-> TRUE,  psm6 |-> Junk,  psm7 |-> TextC],
       [mtime |-> 4, size |-> 2, opens |-> TRUE,  psm6 |-> Junk,  psm7 |-> Junk],
       [mtime |-> 5, size |-> 1, opens |-> TRUE,  psm6 |-> TextB, psm7 |-> Junk],
       [mtime |-> 6, size |-> 3, opens |-> FALSE, psm6 |-> Junk,  psm7 |-> Junk] >>

Images == 1..NumImages

\* args.workers: the default of line 175 where the CPU count is unknown
Workers == 2

\* list_images(folder): the image paths, sorted
list_images == [k \in 1..NumImages |-> k]

\* file_sig(p) from what stat reports: (int(st_mtime), int(st_size)),
\* and (0, 0) when stat fails
file_sig(st) ==
    IF st.ok THEN << st.mtime \div 2, st.size >> ELSE << 0, 0 >>

StatOf(v) == [ok |-> TRUE, mtime |-> Versions[v].mtime, size |-> Versions[v].size]

\* a slip: both configurations are always run
ocr_trace_both(img) ==
    IF ~img.opens THEN [macs |-> {}, calls |-> << >>]
    ELSE [macs  |-> extract_macs(img.psm6) \cup extract_macs(img.psm7),
          calls |-> << "psm6", "psm7" >>]

\* ocr_one_image on an image img: what it returns and the engine
\* configurations it has run, in order; img.psm6 and img.psm7 are the texts
\* the engine reads under cfg1 (--psm 6) and cfg2 (--psm 7)
ocr_trace(img) ==
    IF ~img.opens THEN [macs |-> {}, calls |-> << >>]
    ELSE LET macs == extract_macs(img.psm6)
         IN  IF macs # {}
             THEN [macs |-> macs, calls |-> << "psm6" >>]
             ELSE [macs |-> extract_macs(img.psm7), calls |-> << "psm6", "psm7" >>]

\* ocr_one_image on a file holding version v
ocr_one_image(v) == ocr_trace(Versions[v]).macs

(***************************************************************************)
(* The scan cache.  The document {"images": {path: [mtime, size]}} is the  *)
(* function from its paths to its records; the cache file is absent, holds *)
(* such a document ("json"), holds text json.loads rejects ("corrupt"), or *)
(* holds JSON that is not such a document ("other").                       *)
(***************************************************************************)
EmptyCache == << >>

\* a slip: the cache file is never read
load_cache_never(f) == EmptyCache

load_cache(f) == IF f.kind = "json" THEN f.images ELSE EmptyCache

\* whether what load_cache returns is a dict holding an "images" dict: the
\* file may hold JSON of another shape ([], null, {}, {"images": []}), and
\* line 117 returns whatever json.loads makes of it
load_cache_shape(f) == IF f.kind = "other" THEN "other" ELSE "images"

\* bool(rec) of Python: None and the empty list are false
Truthy(rec) == rec # << >>

\* cache["images"].get(s): the record, or None (here the empty sequence)
Get(c, s) == IF s \in DOMAIN c THEN c[s] ELSE << >>

\* a slip: the record is not compared with the signature
Matches_any(rec, sig) == Truthy(rec)

\* a slip: the sizes are not compared
Matches_mtime(rec, sig) == Truthy(rec) /\ rec[1] = sig[1]

\* line 141: rec and tuple(rec) == sig
Matches(rec, sig) == Truthy(rec) /\ rec = sig

\* filter_unscanned(imgs, cache), sig[s] being file_sig of candidate s
RECURSIVE filter_unscanned(_, _, _)
filter_unscanned(imgs, c, sig) ==
    IF imgs = << >> THEN [unscanned |-> << >>, skipped |-> 0]
    ELSE LET s    == Head(imgs)
             rest == filter_unscanned(Tail(imgs), c, sig)
             rec  == Get(c, s)
         IN  IF Matches(rec, sig[s])
             THEN [unscanned |-> rest.unscanned, skipped |-> rest.skipped + 1]
             ELSE [unscanned |-> << s >> \o rest.unscanned, skipped |-> rest.skipped]

\* cache["images"][p] = rec
SetRecord(c, p, rec) ==
    [q \in DOMAIN c \cup {p} |-> IF q = p THEN rec ELSE c[q]]

(***************************************************************************)
(* State.                                                                  *)
(***************************************************************************)
VARIABLES
    files,        \* the directory: image -> the version its file holds
    cacheFile,    \* the cache file: [kind, images]
    ledger,       \* the ledger file: its lines
    wakelock,     \* whether the device wake lock is held
    pc,           \* where main is: idle before a run, exit after it
    run,          \* number of runs of main started
    reset_cache,  \* args.reset_cache of the run
    workers,      \* max(1, args.workers) of the run
    cache,        \* cache["images"]
    cacheShape,   \* "images" when cache is a dict holding an "images" dict
    to_scan,      \* to_scan
    skipped,      \* skipped
    all_mac,      \* all_mac
    done,         \* done
    interrupted,  \* interrupted
    added,        \* added
    fut,          \* the futures: image -> [st, res]
    exitKind,     \* how main ended: "ok", or by the exception that left it
    finLog,       \* the steps of the finally block executed, in order
    ocrCalls,     \* calls of ocr_one_image made by the workers in this run
    atIntr,       \* at the first Ctrl+C of the run: the images OCRed so far
    modRun,       \* images modified while the run was in progress
    modIdle,      \* images modified since the run ended
    mods,         \* number of changes made to the files so far
    batches,      \* the lengths of the batches appended to the ledger
    order,        \* the images in the order the coordinator collected them
    prev,         \* what the previous run left
    arg,          \* the arguments of a function applied on its own
    ret           \* the value it returned

vars ==
    << files, cacheFile, ledger, wakelock, pc, run, reset_cache, workers, cache,
       cacheShape, to_scan, skipped, all_mac, done, interrupted, added, fut, exitKind, finLog,
       ocrCalls, atIntr, modRun, modIdle, mods, batches, order, prev, arg, ret >>

envVars == << files, cacheFile, ledger, wakelock >>

localVars == << cache, cacheShape, to_scan, skipped, all_mac, done, interrupted, added >>

histVars ==
    << run, reset_cache, workers, ocrCalls, atIntr, modRun, modIdle, mods, batches,
       order, prev >>

pureVars == << arg, ret >>

\* a future: its status, what ocr_one_image returned or that it raised, and
\* the version of the image file the worker read (0: none)
NoFuture == [st |-> "none", res |-> {}, exc |-> FALSE, ver |-> 0]

NoIntr == [seen |-> FALSE, ocred |-> {}, macs |-> {}, started |-> {}]

NoPrev ==
    [normal |-> FALSE, saved |-> FALSE, all_mac |-> {}, ledger |-> << >>,
     modRun |-> {}]

SigOf(i) == file_sig(StatOf(files[i]))

MainInit ==
    /\ files = [i \in Images |-> ((i - 1) % Len(Versions)) + 1]
    /\ cacheFile = [kind |-> "absent", images |-> EmptyCache]
    /\ ledger = << >>
    /\ wakelock = FALSE
    /\ pc = "idle"
    /\ run = 0
    /\ reset_cache = FALSE
    /\ workers = Workers
    /\ cache = EmptyCache
    /\ cacheShape = "images"
    /\ to_scan = << >>
    /\ skipped = 0
    /\ all_mac = {}
    /\ done = 0
    /\ interrupted = FALSE
    /\ added = 0
    /\ fut = [i \in Images |-> NoFuture]
    /\ exitKind = "none"
    /\ finLog = << >>
    /\ ocrCalls = 0
    /\ atIntr = NoIntr
    /\ modRun = {}
    /\ modIdle = {}
    /\ mods = 0
    /\ batches = << >>
    /\ order = << >>
    /\ prev = NoPrev

Init == MainInit /\ arg = << >> /\ ret = << >>

(***************************************************************************)
(* main, lines 170-187: the arguments, the images, the cache.              *)
(***************************************************************************)
Start(rc, w) ==
    /\ pc = "idle"
    /\ run < MaxRuns
    /\ pc' = "acquire"
    /\ run' = run + 1
    /\ reset_cache' = rc
    /\ workers' = w
    /\ cache' = IF rc THEN EmptyCache ELSE load_cache(cacheFile)
    /\ cacheShape' = IF rc THEN "images" ELSE load_cache_shape(cacheFile)
    /\ UNCHANGED << envVars, to_scan, skipped, all_mac, done, interrupted, added,
                    fut, exitKind, finLog, ocrCalls, atIntr, modRun, modIdle,
                    mods, batches, order, prev, pureVars >>

\* line 190
Acquire ==
    /\ pc = "acquire"
    /\ wakelock' = TRUE
    /\ pc' = "filter"
    /\ UNCHANGED << files, cacheFile, ledger, localVars, fut, exitKind, finLog, histVars, pureVars >>

\* lines 193-195 and 209-213
Filter ==
    /\ pc = "filter"
    /\ cacheShape = "images"
    /\ LET r == filter_unscanned(list_images, cache, [i \in Images |-> SigOf(i)])
       IN  /\ to_scan' = r.unscanned
           /\ skipped' = r.skipped
           /\ pc' = IF Len(r.unscanned) = 0 THEN "early" ELSE "submit"
    /\ UNCHANGED << envVars, cache, cacheShape, all_mac, done, interrupted, added,
                    fut, exitKind, finLog, histVars, pureVars >>

\* line 193 with a cache that is not a dict holding an "images" dict: line 140
\* raises (TypeError for [] and null, KeyError for {}), nothing catches it
FilterRaise ==
    /\ pc = "filter"
    /\ cacheShape # "images"
    /\ pc' = "exit"
    /\ exitKind' = "TypeError"
    /\ UNCHANGED << envVars, localVars, fut, finLog, histVars, pureVars >>

\* lines 196-207: nothing to scan
Early ==
    /\ pc = "early"
    /\ wakelock' = FALSE
    /\ pc' = "exit"
    /\ exitKind' = "ok"
    /\ UNCHANGED << files, cacheFile, ledger, localVars, fut, finLog, histVars, pureVars >>

\* lines 215-217: the pool, and every image of to_scan submitted
Submit ==
    /\ pc = "submit"
    /\ fut' = [i \in Images |->
                 IF i \in Range(to_scan) THEN [NoFuture EXCEPT !.st = "pending"]
                 ELSE NoFuture]
    /\ pc' = "collect"
    /\ UNCHANGED << envVars, localVars, exitKind, finLog, histVars, pureVars >>

(***************************************************************************)
(* The pool's workers.  Tasks are taken in submission order, Workers at a  *)
(* time, so the tasks being worked on are the first Workers tasks still    *)
(* pending, and any of them may complete next.  A worker reads the image   *)
(* file once; its whole call of ocr_one_image is one step, taken at that   *)
(* read: the coordinator sees nothing of a task before it completes.       *)
(***************************************************************************)
StatusIn(S) == { i \in Images : fut[i].st \in S }

InPool(i) ==
    \E k \in 1..Len(to_scan) :
        /\ to_scan[k] = i
        /\ fut[i].st = "pending"
        /\ Cardinality({ j \in 1..(k - 1) : fut[to_scan[j]].st = "pending" }) < workers

\* ocr_one_image returns: the future holds its result
WorkerDone(i) ==
    /\ pc \in { "collect", "shutdown" }
    /\ InPool(i)
    /\ fut' = [fut EXCEPT ![i] = [st |-> "finished", res |-> ocr_one_image(files[i]),
                                  exc |-> FALSE, ver |-> files[i]]]
    /\ ocrCalls' = ocrCalls + 1
    /\ UNCHANGED << envVars, pc, localVars, exitKind, finLog, run, reset_cache, workers,
                    atIntr, modRun, modIdle, mods, batches, order, prev, pureVars >>

\* the OCR engine or the image library raises: the future holds the exception
WorkerRaise(i) ==
    /\ pc \in { "collect", "shutdown" }
    /\ InPool(i)
    /\ fut' = [fut EXCEPT ![i] = [st |-> "finished", res |-> {}, exc |-> TRUE,
                                  ver |-> files[i]]]
    /\ ocrCalls' = ocrCalls + 1
    /\ UNCHANGED << envVars, pc, localVars, exitKind, finLog, run, reset_cache, workers,
                    atIntr, modRun, modIdle, mods, batches, order, prev, pureVars >>

(***************************************************************************)
(* The coordinator's loop, lines 218-226.                                  *)
(***************************************************************************)
\* a slip: a failed completion empties the result set
MergeResult_clear(am, f) == IF f.exc THEN {} ELSE am \cup f.res

\* a slip: = for |=
MergeResult_assign(am, f) == IF f.exc THEN am ELSE f.res

\* lines 220-223: all_mac |= (fut.result() or set()), an exception passed over
MergeResult(am, f) == IF f.exc THEN am ELSE am \cup f.res

\* line 224: cache["images"][str(p)] = list(file_sig(p))
Record(c, p, sig) == SetRecord(c, p, sig)

Collect(i) ==
    /\ pc = "collect"
    /\ fut[i].st = "finished"
    /\ all_mac' = MergeResult(all_mac, fut[i])
    /\ cache' = Record(cache, i, SigOf(i))
    /\ done' = done + 1
    /\ fut' = [fut EXCEPT ![i].st = "consumed"]
    /\ order' = Append(order, i)
    /\ UNCHANGED << envVars, pc, cacheShape, to_scan, skipped, interrupted, added,
                    exitKind, finLog, run, reset_cache, workers, ocrCalls, atIntr,
                    modRun, modIdle, mods, batches, prev, pureVars >>

\* as_completed is exhausted; the with block ends, then the finally block
EndCollect ==
    /\ pc = "collect"
    /\ \A i \in Range(to_scan) : fut[i].st = "consumed"
    /\ pc' = "fin_cache"
    /\ UNCHANGED << envVars, localVars, fut, exitKind, finLog, histVars, pureVars >>

(***************************************************************************)
(* Ctrl+C: KeyboardInterrupt raised in the main thread, wherever it is.    *)
(***************************************************************************)
Ocred == { i \in Images : fut[i].st \in { "finished", "consumed" } /\ ~fut[i].exc }

\* the images whose OCR has started: a worker has taken the task
Started == { i \in Images : fut[i].st \in { "finished", "consumed" } \/ InPool(i) }

FirstInterrupt ==
    [seen |-> TRUE, ocred |-> Ocred, macs |-> UNION { fut[i].res : i \in Ocred },
     started |-> Started]

\* before the try statement: nothing catches it
InterruptBefore ==
    /\ pc \in { "acquire", "filter", "early" }
    /\ pc' = "exit"
    /\ exitKind' = "KeyboardInterrupt"
    /\ UNCHANGED << envVars, localVars, fut, finLog, histVars, pureVars >>

\* in the with block, between two iterations: the executor shuts down,
\* waiting for its workers (line 216), before line 227 catches it
InterruptScan ==
    /\ pc \in { "submit", "collect" }
    /\ pc' = "shutdown"
    /\ atIntr' = FirstInterrupt
    /\ UNCHANGED << envVars, localVars, fut, exitKind, finLog, run, reset_cache, workers,
                    ocrCalls, modRun, modIdle, mods, batches, order, prev, pureVars >>

\* in the loop body, after line 221 and before line 224
InterruptMidCollect(i) ==
    /\ pc = "collect"
    /\ fut[i].st = "finished"
    /\ all_mac' = MergeResult(all_mac, fut[i])
    /\ fut' = [fut EXCEPT ![i].st = "consumed"]
    /\ pc' = "shutdown"
    /\ atIntr' = FirstInterrupt
    /\ UNCHANGED << envVars, cache, cacheShape, to_scan, skipped, done, interrupted,
                    added, exitKind, finLog, run, reset_cache, workers, ocrCalls,
                    modRun, modIdle, mods, batches, order, prev, pureVars >>

Abandon(f) ==
    IF f.st \in { "pending", "finished" }
    THEN [st |-> "abandoned", res |-> {}, exc |-> FALSE, ver |-> 0]
    ELSE f

\* shutdown(wait=True) returns: no task is left to the workers; lines 227-228.
\* The results not yet collected are dropped with the executor.
ShutdownDone ==
    /\ pc = "shutdown"
    /\ StatusIn({ "pending" }) = {}
    /\ interrupted' = TRUE
    /\ fut' = [i \in Images |-> Abandon(fut[i])]
    /\ pc' = "fin_cache"
    /\ UNCHANGED << envVars, cache, cacheShape, to_scan, skipped, all_mac, done, added,
                    exitKind, finLog, histVars, pureVars >>

\* the wait ends early: the workers, in the terminal's process group, die of
\* the same Ctrl+C and the pool breaks, or a second Ctrl+C is raised out of
\* the with statement; line 227 catches it and the tasks left are abandoned
InterruptShutdown ==
    /\ pc = "shutdown"
    /\ StatusIn({ "pending" }) # {}
    /\ interrupted' = TRUE
    /\ fut' = [i \in Images |-> Abandon(fut[i])]
    /\ pc' = "fin_cache"
    /\ UNCHANGED << envVars, cache, cacheShape, to_scan, skipped, all_mac, done, added,
                    exitKind, finLog, histVars, pureVars >>

\* in the finally block: it propagates, the rest of the block is skipped
InterruptFinally ==
    /\ pc \in { "fin_cache", "fin_ledger", "fin_release", "fin_summary" }
    /\ pc' = "exit"
    /\ exitKind' = "KeyboardInterrupt"
    /\ UNCHANGED << envVars, localVars, fut, finLog, histVars, pureVars >>

(***************************************************************************)
(* The finally block, lines 230-256.                                       *)
(***************************************************************************)
\* save_cache(path, data): w is how the write goes: "ok"; "noopen", the file
\* cannot be opened and stays as it was; "trunc", the file is opened (and so
\* truncated) and the write fails.  The exception is passed over.
save_cache(f, data, w) ==
    CASE w = "ok"     -> [kind |-> "json", images |-> data]
      [] w = "noopen" -> f
      [] w = "trunc"  -> [kind |-> "corrupt", images |-> EmptyCache]

\* lines 231-232
SaveCache(w) ==
    /\ pc = "fin_cache"
    /\ cacheFile' = save_cache(cacheFile, cache, w)
    /\ finLog' = Append(finLog, "cache")
    /\ pc' = "fin_ledger"
    /\ UNCHANGED << files, ledger, wakelock, localVars, fut, exitKind, histVars, pureVars >>

\* line 233; ok is whether the ledger can be opened for appending: if not,
\* the exception of line 106 leaves main
SaveNew(ok) ==
    /\ pc = "fin_ledger"
    /\ LET r == save_new(all_mac, ledger)
       IN  /\ ok \/ r.n > 0
           /\ IF ok
              THEN /\ ledger' = r.file
                   /\ added' = r.n
                   /\ batches' = IF r.n > 0 THEN Append(batches, r.n) ELSE batches
                   /\ finLog' = Append(finLog, "ledger")
                   /\ pc' = "fin_release"
                   /\ UNCHANGED exitKind
              ELSE /\ pc' = "exit"
                   /\ exitKind' = "OSError"
                   /\ UNCHANGED << ledger, added, batches, finLog >>
    /\ UNCHANGED << files, cacheFile, wakelock, cache, cacheShape, to_scan, skipped,
                    all_mac, done, interrupted, fut, run, reset_cache, workers,
                    ocrCalls, atIntr, modRun, modIdle, mods, order, prev, pureVars >>

\* lines 234-235
Release ==
    /\ pc = "fin_release"
    /\ wakelock' = FALSE
    /\ finLog' = Append(finLog, "release")
    /\ pc' = "fin_summary"
    /\ UNCHANGED << files, cacheFile, ledger, localVars, fut, exitKind, histVars, pureVars >>

\* lines 237-256
Summary ==
    /\ pc = "fin_summary"
    /\ finLog' = Append(finLog, "summary")
    /\ pc' = "exit"
    /\ exitKind' = "ok"
    /\ UNCHANGED << envVars, localVars, fut, histVars, pureVars >>

(***************************************************************************)
(* The process has exited: what the run leaves to the next one.            *)
(***************************************************************************)
Exit ==
    /\ pc = "exit"
    /\ pc' = "idle"
    /\ prev' = IF exitKind = "ok" /\ ~interrupted
               THEN [normal |-> TRUE,
                     saved  |-> cacheFile.kind = "json" /\ cacheFile.images = cache,
                     all_mac |-> all_mac, ledger |-> ledger, modRun |-> modRun]
               ELSE NoPrev
    /\ reset_cache' = FALSE
    /\ workers' = Workers
    /\ cache' = EmptyCache
    /\ cacheShape' = "images"
    /\ to_scan' = << >>
    /\ skipped' = 0
    /\ all_mac' = {}
    /\ done' = 0
    /\ interrupted' = FALSE
    /\ added' = 0
    /\ fut' = [i \in Images |-> NoFuture]
    /\ exitKind' = "none"
    /\ finLog' = << >>
    /\ ocrCalls' = 0
    /\ atIntr' = NoIntr
    /\ modRun' = {}
    /\ modIdle' = {}
    /\ order' = << >>
    /\ UNCHANGED << envVars, run, mods, batches, pureVars >>

(***************************************************************************)
(* The environment: an image file is replaced by its next version,         *)
(* between two runs or while the images are being scanned.                 *)
(***************************************************************************)
NextVersion(v) == (v % Len(Versions)) + 1

Modify(i) ==
    /\ pc \in { "idle", "collect" }
    /\ mods < MaxMods
    /\ files' = [files EXCEPT ![i] = NextVersion(files[i])]
    /\ mods' = mods + 1
    /\ IF pc = "idle"
       THEN modIdle' = modIdle \cup {i} /\ UNCHANGED modRun
       ELSE modRun' = modRun \cup {i} /\ UNCHANGED modIdle
    /\ UNCHANGED << cacheFile, ledger, wakelock, pc, localVars, fut, exitKind, finLog,
                    run, reset_cache, workers, ocrCalls, atIntr, batches, order, prev,
                    pureVars >>

\* between two runs the cache file is deleted, overwritten with text that is
\* not JSON, or overwritten with JSON that is not a cache document
DamageCache(k) ==
    /\ pc = "idle"
    /\ run < MaxRuns
    /\ mods < MaxMods
    /\ cacheFile.kind # k
    /\ cacheFile' = [kind |-> k, images |-> EmptyCache]
    /\ mods' = mods + 1
    /\ prev' = [prev EXCEPT !.saved = FALSE]
    /\ UNCHANGED << files, ledger, wakelock, pc, localVars, fut, exitKind, finLog,
                    run, reset_cache, workers, ocrCalls, atIntr, modRun, modIdle,
                    batches, order, pureVars >>

Next ==
    \/ \E rc \in BOOLEAN, w \in 1..Workers : Start(rc, w)
    \/ Acquire
    \/ Filter
    \/ FilterRaise
    \/ Early
    \/ Submit
    \/ \E i \in Images : WorkerDone(i)
    \/ \E i \in Images : WorkerRaise(i)
    \/ \E i \in Images : Collect(i)
    \/ EndCollect
    \/ InterruptBefore
    \/ InterruptScan
    \/ \E i \in Images : InterruptMidCollect(i)
    \/ ShutdownDone
    \/ InterruptShutdown
    \/ InterruptFinally
    \/ \E w \in { "ok", "noopen", "trunc" } : SaveCache(w)
    \/ \E ok \in BOOLEAN : SaveNew(ok)
    \/ Release
    \/ Summary
    \/ Exit
    \/ \E i \in Images : Modify(i)
    \/ \E k \in { "absent", "corrupt", "other" } : DamageCache(k)

Spec == Init /\ [][Next]_vars

(***************************************************************************)
(* filter_unscanned on its own: applied to a list of candidates, a cache   *)
(* document and what stat reports of each candidate's file.                *)
(***************************************************************************)
Candidates == { 1, 2 }

CandidateLists ==
    { << >> } \cup { << a >> : a \in Candidates }
              \cup { << a, b >> : a, b \in Candidates }

\* the records of a cache document: [mtime, size], or an empty list
Records == { << >> } \cup ((0..(MaxTick \div 2)) \X (0..MaxSize))

CacheDocs == UNION { [D -> Records] : D \in SUBSET Candidates }

\* what stat reports: failure, or st_mtime (in half seconds) and st_size
Stats ==
    { [ok |-> FALSE, mtime |-> 0, size |-> 0] }
        \cup [ok : { TRUE }, mtime : 0..MaxTick, size : 0..MaxSize]

InitFilter ==
    /\ MainInit
    /\ arg \in [imgs : CandidateLists, cache : CacheDocs, stat : [Candidates -> Stats]]
    /\ ret = << >>

ApplyFilter ==
    /\ ret = << >>
    /\ ret' = << filter_unscanned(arg.imgs, arg.cache,
                                  [s \in Candidates |-> file_sig(arg.stat[s])]) >>
    /\ UNCHANGED << envVars, pc, localVars, fut, exitKind, finLog, histVars, arg >>

NextFilter == ApplyFilter

SpecFilter == InitFilter /\ [][NextFilter]_vars

(***************************************************************************)
(* extract_macs on its own: applied to a text made of two-character        *)
(* groups written in one separator style.                                  *)
(***************************************************************************)
\* the groups: lower-case hex, upper-case hex with a B, a letter that is no
\* hex digit, and a letter fix_ocr_typos rewrites
Groups == { << "a", "9" >>, << "B", "0" >>, << "z", "1" >>, << "O", "c" >> }

GroupCounts == (MaxGroups - 2)..MaxGroups

GroupLists == UNION { [1..n -> Groups] : n \in GroupCounts }

\* colon: HH:HH:..., hyphen: HH-HH-..., dot: HHHH.HHHH..., raw: the digits
\* alone, raw1: the digits and one more
Styles == { "colon", "hyphen", "dot", "raw", "raw1" }

RECURSIVE Flatten(_)
Flatten(gs) == IF gs = << >> THEN << >> ELSE Head(gs) \o Flatten(Tail(gs))

\* the characters of d in chunks of n, joined by c
RECURSIVE Chunked(_, _, _)
Chunked(d, n, c) ==
    IF Len(d) <= n THEN d
    ELSE SubSeq(d, 1, n) \o << c >> \o Chunked(SubSeq(d, n + 1, Len(d)), n, c)

Render(gs, style) ==
    CASE style = "colon"  -> Chunked(Flatten(gs), 2, ":")
      [] style = "hyphen" -> Chunked(Flatten(gs), 2, "-")
      [] style = "dot"    -> Chunked(Flatten(gs), 4, ".")
      [] style = "raw"    -> Flatten(gs)
      [] style = "raw1"   -> Flatten(gs) \o << "1" >>

InitMatcher ==
    /\ MainInit
    /\ arg \in [groups : GroupLists, style : Styles]
    /\ ret = << >>

ApplyExtract ==
    /\ ret = << >>
    /\ ret' = << extract_macs(Render(arg.groups, arg.style)) >>
    /\ UNCHANGED << envVars, pc, localVars, fut, exitKind, finLog, histVars, arg >>

NextMatcher == ApplyExtract

SpecMatcher == InitMatcher /\ [][NextMatcher]_vars

(***************************************************************************)
(* ocr_one_image on its own: applied to an image that opens or not and     *)
(* from which the engine reads one text under each configuration.          *)
(***************************************************************************)
Texts ==
    { << >>, Junk, TextA, TextB, TextC,
      Render([k \in 1..6 |-> << "a", "9" >>], "raw") }

InitOcr ==
    /\ MainInit
    /\ arg \in [opens : BOOLEAN, psm6 : Texts, psm7 : Texts]
    /\ ret = << >>

ApplyOcr ==
    /\ ret = << >>
    /\ ret' = << ocr_trace(arg) >>
    /\ UNCHANGED << envVars, pc, localVars, fut, exitKind, finLog, histVars, arg >>

NextOcr == ApplyOcr

SpecOcr == InitOcr /\ [][NextOcr]_vars

(***************************************************************************)
(* Properties.                                                             *)
(***************************************************************************)
Exited == pc = "exit"

\* the run reached the try statement of line 215: it had images to scan
EnteredScanning == to_scan # << >>

\* a Ctrl+C arrived during the run
GotInterrupt == atIntr.seen \/ exitKind = "KeyboardInterrupt"

FinSteps == << "cache", "ledger", "release", "summary" >>

\* C1: a run that entered the scanning phase and received a Ctrl+C at any
\* point has, when the process exits, persisted the cache, merged the result
\* set into the ledger and released the wake lock.
C1_InterruptFinalizes ==
    (Exited /\ EnteredScanning /\ GotInterrupt)
        => { "cache", "ledger", "release" } \subseteq Range(finLog)

\* the cache file holds what the run's cache held
CacheSaved == cacheFile = [kind |-> "json", images |-> cache]

\* C2: when a run interrupted during scanning exits, its finalization done
\* and its cache written, every image whose OCR had completed in a worker
\* before the interruption has a record in the persisted cache, and its
\* addresses are in the ledger (the next run's filter, which reads that
\* cache, resumes from there).
C2_InterruptKeepsCompletedWork ==
    (Exited /\ atIntr.seen /\ exitKind = "ok" /\ CacheSaved)
        => /\ \A i \in atIntr.ocred : i \in DOMAIN cacheFile.images
           /\ atIntr.macs \subseteq Range(ledger)

\* the run follows, with the cache, a run that completed normally and wrote
\* its cache file, which is as that run wrote it, and no image file has
\* changed since that run began
Rerun ==
    /\ pc # "idle"
    /\ prev.normal /\ prev.saved /\ ~reset_cache
    /\ prev.modRun = {} /\ modIdle = {} /\ modRun = {}

\* C3 as stated: a second run over the unchanged directory, with the cache,
\* makes no OCR call and yields the result set of the first run.
C3_RerunSameResultSet ==
    (Exited /\ exitKind = "ok" /\ Rerun) => ocrCalls = 0 /\ all_mac = prev.all_mac

\* C3 amended: a second run over the unchanged directory, with the cache the
\* first run wrote, makes no OCR call at any point; it has nothing to scan,
\* so its own result set stays empty, and the ledger stays as the first run
\* left it.
C3_RerunNoOcrLedgerKept ==
    Rerun => /\ ocrCalls = 0
             /\ pc \notin { "submit", "collect", "shutdown" }
             /\ all_mac = {}
             /\ ledger = prev.ledger

C3_Witness ==
    Exited /\ Rerun /\ exitKind = "ok" /\ prev.all_mac # {} /\ skipped = NumImages

\* the run follows, with the cache, a run that completed normally and wrote
\* its cache file, which is as that run wrote it, and since that run began the files of exactly the images S
\* were modified, after it ended
RerunAfterChange(S) ==
    /\ pc \in { "early", "submit" }
    /\ prev.normal /\ prev.saved /\ ~reset_cache
    /\ prev.modRun = {} /\ modRun = {} /\ modIdle = S

\* C4: after a cached run that completed normally, when the signature of
\* exactly one image has changed and nothing else, the next run submits
\* exactly that image to OCR and counts every other image as skipped.
C4_OnlyChangedImageRescanned ==
    \A j \in Images :
        RerunAfterChange({j})
            => to_scan = << j >> /\ skipped = NumImages - 1

C4_Witness == \E j \in Images : RerunAfterChange({j}) /\ pc = "submit"

\* the record the cache holds for candidate s is its current signature
Hit(s) == s \in DOMAIN arg.cache /\ arg.cache[s] = file_sig(arg.stat[s])

\* C5: filter_unscanned skips a candidate exactly when the cache holds a
\* record for its path equal to its current (mtime, size) signature; the
\* others, with no record or a differing one, make up the unscanned list,
\* in candidate order, and skipped plus its length is the number of
\* candidates.
C5_SkipsIffRecordMatches ==
    Len(ret) = 1
        => /\ ret[1].unscanned = SelectSeq(arg.imgs, LAMBDA s : ~Hit(s))
           /\ ret[1].skipped = Len(SelectSeq(arg.imgs, Hit))
           /\ ret[1].skipped + Len(ret[1].unscanned) = Len(arg.imgs)

\* one candidate skipped, the other kept for its differing record
C5_Witness ==
    /\ Len(ret) = 1
    /\ arg.imgs = << 1, 2 >>
    /\ ret[1].skipped = 1
    /\ ret[1].unscanned = << 2 >>
    /\ 2 \in DOMAIN arg.cache
    /\ Len(arg.cache[2]) = 2

\* the loop of lines 218-226 ended with every future collected
LoopCompleted ==
    /\ pc \in { "fin_cache", "fin_ledger", "fin_release", "fin_summary", "exit" }
    /\ EnteredScanning
    /\ ~interrupted

\* C6: when the loop has collected every completion, the result set is the
\* union of what the workers returned and the cache holds a record for every
\* image, whatever the order of collection; with no file modified during
\* the run, both are functions of the directory alone: the addresses of the
\* scanned files whose OCR did not fail, and every image's signature.
C6_OrderIndependent ==
    LoopCompleted
        => /\ all_mac = UNION { fut[i].res : i \in Range(to_scan) }
           /\ DOMAIN cache = Images
           /\ modRun = {}
                => /\ cache = [i \in Images |-> SigOf(i)]
                   /\ all_mac = UNION { IF fut[i].exc THEN {}
                                        ELSE ocr_one_image(files[i]) :
                                        i \in Range(to_scan) }

\* image 2 was collected before image 1, and each brought an address
C6_Witness ==
    /\ LoopCompleted
    /\ order = << 2, 1 >>
    /\ modRun = {}
    /\ Cardinality(all_mac) = 2

\* C7: every run that entered scanning has, when the process exits, gone
\* through the finalization once, with its four steps in the same order,
\* whether the workers all completed or a Ctrl+C arrived.
C7_FinalizationComplete ==
    (Exited /\ EnteredScanning) => finLog = FinSteps

\* C8: the ledger holds no line twice and only canonical addresses.
C8_LedgerWellFormed ==
    /\ \A k \in 1..Len(ledger) : VALID(ledger[k])
    /\ \A j, k \in 1..Len(ledger) : ledger[j] = ledger[k] => j = k

\* a merge of a result set that overlaps the ledger has appended
C8_Witness ==
    /\ pc = "fin_release"
    /\ added > 0
    /\ Len(ledger) > added
    /\ Cardinality(all_mac) > added

\* C9 as stated: the lines of the ledger are in ascending order.
C9_LedgerSorted ==
    \A k \in 1..(Len(ledger) - 1) : StrLess(ledger[k], ledger[k + 1])

\* the position in the ledger before the first line of batch b
RECURSIVE BatchStart(_)
BatchStart(b) == IF b = 1 THEN 0 ELSE BatchStart(b - 1) + batches[b - 1]

\* C9 amended: the ledger is the batches its merges appended, one after the
\* other; the lines of each batch are in ascending order.
C9_SortedWithinBatches ==
    /\ Len(ledger) = BatchStart(Len(batches) + 1)
    /\ \A b \in 1..Len(batches) :
          \A k \in (BatchStart(b) + 1)..(BatchStart(b) + batches[b] - 1) :
              StrLess(ledger[k], ledger[k + 1])

\* two lines appended by one merge, after an earlier batch
C9_Witness == Len(batches) = 2 /\ batches[2] = 2

IsPrefix(p, q) == Len(p) <= Len(q) /\ SubSeq(q, 1, Len(p)) = p

\* C10: the step of save_new keeps every stored line where it is, appends
\* exactly the addresses of the result set the ledger does not hold, in
\* ascending order, and returns their number; with nothing new the file is
\* as it was and 0 is returned.  No other step touches the ledger.
C10_SaveNewAppends ==
    [][ IF pc = "fin_ledger" /\ pc' = "fin_release"
        THEN /\ IsPrefix(ledger, ledger')
             /\ LET app == SubSeq(ledger', Len(ledger) + 1, Len(ledger'))
                IN  /\ Range(app) = all_mac \ Range(ledger)
                    /\ Len(app) = Cardinality(Range(app))
                    /\ \A k \in 1..(Len(app) - 1) : StrLess(app[k], app[k + 1])
                    /\ added' = Len(app)
        ELSE ledger' = ledger ]_vars

\* save_new has appended to a ledger that held lines already
C10_Witness == pc = "fin_release" /\ added > 0 /\ Len(ledger) > added

\* C11: whatever the cache file holds (nothing, text that is not JSON, JSON
\* that is not a cache document), the run is not aborted by it, and a run
\* that reads a cache file holding no cache document finds every image of
\* the directory unscanned.
C11_BadCacheIsEmptyCache ==
    /\ exitKind # "TypeError"
    /\ (pc \in { "early", "submit" } /\ ~reset_cache /\ cacheFile.kind # "json")
          => to_scan = list_images /\ skipped = 0

\* C12: a run that entered scanning and received no Ctrl+C has, when the process exits, released the wake lock and
\* printed the summary, whether or not writing the cache file or the ledger
\* file failed.
C12_WriteFailureKeepsSummary ==
    (Exited /\ EnteredScanning /\ ~GotInterrupt)
        => /\ { "release", "summary" } \subseteq Range(finLog)
           /\ ~wakelock

\* C13: when the coordinator collects a completion whose future raises, the
\* result set stays as it was, the image gets its cache record, the file's
\* signature as for a success, the progress counter goes up by one and the
\* loop goes on; no task is submitted again, so a run makes at most one OCR
\* call per image it scans.
C13_FailedOcrIsNoAddress ==
    [][ /\ \A i \in Images :
              (fut[i].st = "finished" /\ fut[i].exc /\ fut'[i].st = "consumed"
                    /\ pc' = "collect")
                 => /\ all_mac' = all_mac
                    /\ i \in DOMAIN cache' /\ cache'[i] = SigOf(i)
                    /\ done' = done + 1
        /\ \A i \in Images :
              (fut[i].st \in { "finished", "consumed" } /\ pc' # "idle")
                 => fut'[i].st # "pending"
        /\ ocrCalls' <= Len(to_scan') ]_vars

\* a failed completion was collected after one that had brought an address,
\* and the loop is still running
C13_Witness ==
    /\ pc = "collect"
    /\ all_mac # {}
    /\ \E i, j \in Images :
          order = << j, i >> /\ fut[i].exc /\ ~fut[j].exc /\ i \in DOMAIN cache

AllHex(gs) == \A k \in 1..Len(gs) : gs[k][1] \in HexDigits /\ gs[k][2] \in HexDigits

\* the canonical form of six hex octets: upper case, joined by colons
Canonical(gs) == Chunked(upper(Flatten(gs)), 2, ":")

\* C14: for six hex octets in either letter case, written with colons, with
\* hyphens, dot-grouped or ungrouped, extract_macs on that text yields
\* exactly their canonical colon-separated upper-case form.
C14_CanonicalForAllStyles ==
    (Len(ret) = 1 /\ Len(arg.groups) = 6 /\ AllHex(arg.groups) /\ arg.style # "raw1")
        => ret[1] = { Canonical(arg.groups) }

\* the groups have a character that is no hex digit and that fix_ocr_typos
\* does not rewrite into one
NonHex(gs) == ~AllHex([k \in 1..Len(gs) |-> fix_ocr_typos(gs[k])])

\* C15: extract_macs returns no address for a text that is not six hex
\* octets: colon- or hyphen-joined groups other than six in number, a bare
\* run of digits other than twelve, or groups with a character that is no
\* hex digit (the letters the OCR typo table rewrites left aside).
C15_OnlySixOctetsAccepted ==
    (/\ Len(ret) = 1
     /\ \/ NonHex(arg.groups)
        \/ arg.style \in { "colon", "hyphen" } /\ Len(arg.groups) # 6
        \/ arg.style \in { "raw", "raw1" }
              /\ Len(Render(arg.groups, arg.style)) # 12)
        => ret[1] = {}

\* C16: once a Ctrl+C has arrived during the scan, no image whose OCR had
\* not started at that moment is OCRed: every completion belongs to a task
\* a worker had taken before the Ctrl+C.
C16_NoOcrStartsAfterInterrupt ==
    atIntr.seen
        => \A i \in Images :
              fut[i].st \in { "finished", "consumed" } => i \in atIntr.started

\* what ocr_one_image owes for an image, the configuration first being run
\* first and second only when the text of first yields no address
TriesInOrder(first, second) ==
    Len(ret) = 1
        => LET r == ret[1]
               m == extract_macs(arg[first])
           IN  /\ ~arg.opens => r.calls = << >> /\ r.macs = {}
               /\ arg.opens
                     => /\ r.calls = IF m # {} THEN << first >> ELSE << first, second >>
                        /\ r.macs = IF m # {} THEN m ELSE extract_macs(arg[second])

\* C17 as stated: the single-line mode (--psm 7) is tried first, the block
\* mode (--psm 6) second and only when the first yielded no address; an
\* image that does not open yields no address and no OCR invocation.
C17_SingleLineFirst == TriesInOrder("psm7", "psm6")

\* C17 amended: the block mode (--psm 6) is tried first, the single-line
\* mode (--psm 7) second and only when the first yielded no address; an
\* image that does not open yields no address and no OCR invocation.
C17_BlockFirst == TriesInOrder("psm6", "psm7")

\* the first configuration found nothing and the second found an address
C17_Witness ==
    /\ Len(ret) = 1
    /\ arg.opens
    /\ ret[1].calls = << "psm6", "psm7" >>
    /\ ret[1].macs # {}

\* C18: when the process exits the wake lock is not held: every path of
\* main that acquired it (early return, normal completion, interruption, an
\* error raised after the acquisition) has released it.
C18_WakeLockReleased == Exited => ~wakelock

\* C19: when a run that wrote its cache to the cache file exits, otherwise
\* than by a Ctrl+C in its finalization, every address returned by the OCR
\* of an image the run recorded in the cache is in the ledger; and within
\* the run the addresses of a recorded image are in the result set.
C19_CacheNotAheadOfLedger ==
    /\ \A i \in Range(order) : fut[i].res \subseteq all_mac
    /\ (Exited /\ exitKind # "KeyboardInterrupt" /\ CacheSaved
              /\ "cache" \in Range(finLog))
          => \A i \in Range(order) : fut[i].res \subseteq Range(ledger)

\* C20: the signature in the cache record of an image collected in this run
\* is the signature of the file version its worker read, so that a file
\* modified after the worker read it is scanned again by the next run.
C20_RecordIsSignatureOfWhatWasRead ==
    \A i \in Range(order) : cache[i] = file_sig(StatOf(fut[i].ver))

====
